---- MODULE Spec2Model ----
(***************************************************************************)
(* Chunk extraction of semantic-code-search: the lazy directory walker     *)
(* CodeFileSplitter (src/src/split.rs), the per-file chunker process_file  *)
(* and the dataset assembler find_and_split, over a small file tree.       *)
(*                                                                         *)
(* Text is a sequence of one-character strings.  A path is the sequence of *)
(* node ids from the root; a node id stands for the name of the entry.     *)
(* The syntax splitter (crate code_splitter) is an external library: the   *)
(* answer it gives for a file is part of the environment and is fixed with *)
(* the file tree; it reports row ranges inside the buffer it was given.    *)
(*                                                                         *)
(* The two later stages are modelled next to it: index (src/src/index.rs), *)
(* which loads a record batch into the table "codebases" of a store, and   *)
(* create_embeddings_from_file (src/src/embed.rs), which adds an embedding *)
(* column to a dataset.  The store (lancedb), the data frames (polars) and *)
(* the embedding model (fastembed) are external libraries, modelled by     *)
(* their interface.  Each stage has a specification of its own: Spec and   *)
(* SpecPair for the extraction, SpecIndex and SpecEmbed for the others.    *)
(***************************************************************************)
EXTENDS Integers, Sequences, FiniteSets, TLC

\* ---------------------------------------------------------------- bounds
MaxNodes == 3          \* entries below the root in a drawn tree
MaxContentLen == 2     \* characters of a drawn file content
MaxChunks == 2         \* chunks the splitter returns for one file
MaxWeight == 1         \* largest weight the splitter reports for a chunk
MaxCalls == 3          \* calls of index on one store
MaxBatchRows == 2      \* rows of the record batch one call of index reads
MaxRows == 2           \* rows of the dataset the embedding stage reads

Root == 0
Nodes == 0..MaxNodes
Runs == {1, 2}

None == <<>>
Some(x) == <<x>>

NewLine == "\n"
Chars == {"a", NewLine}

\* ------------------------------------------------------------- text helpers
RECURSIVE SplitOn(_, _)
\* the pieces of text c between occurrences of sep (k separators, k+1 pieces)
SplitOn(c, sep) ==
    IF \A i \in 1..Len(c) : c[i] # sep
    THEN <<c>>
    ELSE LET i == CHOOSE j \in 1..Len(c) :
                      c[j] = sep /\ \A k \in 1..(j - 1) : c[k] # sep
         IN  <<SubSeq(c, 1, i - 1)>> \o SplitOn(SubSeq(c, i + 1, Len(c)), sep)

\* BufRead::lines: split on newline, terminator stripped, no final empty line
Lines(c) ==
    LET p == SplitOn(c, NewLine)
    IN  IF p[Len(p)] = <<>> THEN SubSeq(p, 1, Len(p) - 1) ELSE p

RECURSIVE Join(_, _)
\* [String]::join
Join(ls, sep) ==
    IF ls = <<>> THEN <<>>
    ELSE IF Len(ls) = 1 THEN ls[1]
    ELSE ls[1] \o <<sep>> \o Join(Tail(ls), sep)

\* the rows of a buffer: the splitter's points count newline characters
Rows(c) == Cardinality({i \in 1..Len(c) : c[i] = NewLine})

Whitespace == {NewLine, " "}
\* str::trim leaves nothing
TrimIsEmpty(t) == \A i \in 1..Len(t) : t[i] \in Whitespace

Contains(s, x) == \E i \in 1..Len(s) : s[i] = x

RECURSIVE Ascending(_)
Ascending(S) ==
    IF S = {} THEN <<>>
    ELSE LET m == CHOOSE x \in S : \A y \in S : x <= y
         IN  <<m>> \o Ascending(S \ {m})

NoDup(s) == \A i, j \in 1..Len(s) : i # j => s[i] # s[j]

\* ---------------------------------------------------------- language registry
init_languages ==
    << [name |-> "javascript", extensions |-> <<"js">>],
       [name |-> "rust",       extensions |-> <<"rs">>],
       [name |-> "python",     extensions |-> <<"py">>],
       [name |-> "typescript", extensions |-> <<"ts">>] >>

VARIABLES
    languages,     \* the static LANGUAGES: the registry, set once
    fs,            \* the file tree: node -> attributes (never changes)
    view,          \* run -> the nodes present in the tree that run walks
    order,         \* run -> the order in which directories list their entries
    input_dir_path,\* run -> the directory the extraction starts from
    output_path,   \* run -> the entry of the tree output_file_uri names (Option)
    fpc,           \* run -> position of find_and_split
    cause,         \* run -> why find_and_split ended
    output,        \* run -> state of the output file
    directories,   \* run -> CodeFileSplitter.directories (stack, top last)
    entries,       \* run -> CodeFileSplitter.entries (Option of the cursor)
    chunks,        \* run -> CodeFileSplitter.chunks
    opened,        \* run -> directories fs::read_dir was called on, in order
    handed,        \* run -> files passed to process_file, in order
    splits,        \* run -> files passed to split_file, in order
    tried,         \* run -> names of the languages passed to split_file, in order
    out,           \* run -> records returned by next(), in order
    handles,       \* run -> most cursors and most files open at one time so far
    file_paths, file_names, start_lines, end_lines, texts, sizes,
    dataframe,     \* run -> the dataset handed to ParquetWriter (named columns)
    table,         \* the table "codebases" of the store (Option)
    ipc,           \* call -> position of index
    input,         \* call -> what index found behind input_file_uri
    icause,        \* call -> why index returned an error
    indexed,       \* the calls of index that returned Ok, in order
    input_file,    \* what lies behind input_file_uri of the embedding stage
    output_file,   \* what lies behind output_file_uri of the embedding stage
    epc,           \* position of create_embeddings_from_file
    ecause         \* why create_embeddings_from_file ended

walker == <<directories, entries, chunks, opened, handed, splits, tried, out, handles>>
columns == <<file_paths, file_names, start_lines, end_lines, texts, sizes>>
tree == <<languages, fs, view, order, input_dir_path, output_path>>

\* LANGUAGES.get_or_init(init_languages): the registry as it was set
get_languages == languages
store == <<table, ipc, input, icause, indexed>>
embedder == <<input_file, output_file, epc, ecause>>
stages == <<store, embedder>>
vars == <<tree, fpc, cause, output, walker, columns, dataframe, stages>>

\* ------------------------------------------------------- the calls of index
Calls == 1..MaxCalls
NoInput == [kind |-> "none", schema |-> "", rows |-> <<>>]

\* ------------------------------------------------------------- the file tree
RECURSIVE Path(_)
\* the path of a node: the names from the root down
Path(n) == IF n = Root THEN <<Root>> ELSE Path(fs[n].parent) \o <<n>>

\* Path::file_name
FileNameOf(path) == path[Len(path)]

\* Path::extension: None when the name has no extension
Extension(path) == fs[path[Len(path)]].ext

\* OsStr::to_str: None when the bytes are not UTF-8
ToStr(os) == IF os.utf8 THEN Some(os.str) ELSE None

\* the order in which a directory's entries are enumerated
ReadDir(d, V) ==
    LET listed == Ascending({n \in V.nodes \ {Root} : fs[n].parent = d})
    IN  IF V.order = "asc" THEN listed
        ELSE [i \in 1..Len(listed) |-> listed[Len(listed) + 1 - i]]

\* ------------------------------------------------------------ File Chunker
\* CodeFileSplitter::split_file: open, read the lines, rewind, read the
\* bytes, split them.  Any failure is the Err of the call.
split_file(path, language) ==
    LET f == fs[path[Len(path)]]
    IN  IF f.io # "ok" \/ ~f.split.ok
        THEN [ok |-> FALSE, lines |-> <<>>, chunks |-> <<>>]
        ELSE [ok |-> TRUE, lines |-> Lines(f.content), chunks |-> f.split.chunks]

\* lines[start_row..end_row] is in range
SliceInRange(lines, start_row, end_row) ==
    start_row <= end_row /\ end_row <= Len(lines)

\* the slice taken with an inclusive end row
ChunkTextInclusive(lines, start_row, end_row) ==
    LET last == IF end_row + 1 <= Len(lines) THEN end_row + 1 ELSE Len(lines)
        joined == Join(SubSeq(lines, start_row + 1, last), NewLine)
    IN  IF joined # <<>> THEN Some(joined) ELSE None

\* Some(lines[start_row..end_row].join("\n")).filter(|x| !x.is_empty())
ChunkText(lines, start_row, end_row) ==
    LET joined == Join(SubSeq(lines, start_row + 1, end_row), NewLine)
    IN  IF joined # <<>> THEN Some(joined) ELSE None

\* the ChunkMetadata pushed for one splitter chunk
MakeChunkMetadata(path, lines, chunk) ==
    [file_path  |-> path,
     file_name  |-> FileNameOf(path),
     start_line |-> chunk.start_row,
     end_line   |-> chunk.end_row,
     text       |-> ChunkText(lines, chunk.start_row, chunk.end_row),
     size       |-> chunk.size]

\* the matching registry entries, the last one first
MatchingLanguagesReversed(extension) ==
    LET found == SelectSeq(get_languages, LAMBDA x : Contains(x.extensions, extension))
    IN  [i \in 1..Len(found) |-> found[Len(found) + 1 - i]]

\* a lookup that falls back to the first registry entry
MatchingLanguagesOrFirst(extension) ==
    LET found == SelectSeq(get_languages, LAMBDA x : Contains(x.extensions, extension))
    IN  IF found = <<>> THEN <<get_languages[1]>> ELSE found

\* the registry entries whose extension list contains the extension
MatchingLanguages(extension) ==
    SelectSeq(get_languages, LAMBDA x : Contains(x.extensions, extension))

\* a failed split that is unwrapped instead of reported
OnSplitErrorUnwrap(res) == [res EXCEPT !.panic = "split"]

\* .map_err(|e| eprintln!(..)): the error is printed and the file yields None
OnSplitError(res) == res

\* CodeFileSplitter::process_file.  panic is "extension" for the unwrap of a
\* missing extension and "slice" for a line slice out of range; tried lists
\* the languages split_file was called with.
process_file(path) ==
    LET ext == Extension(path)
        quiet == [panic |-> "none", ret |-> None, tried |-> <<>>]
    IN  IF ext = None THEN [quiet EXCEPT !.panic = "extension"]
        ELSE LET maybe_extension == ToStr(ext[1])
             IN  IF maybe_extension = None THEN quiet
                 ELSE LET matching == MatchingLanguages(maybe_extension[1])
                      IN  IF matching = <<>> THEN quiet
                          ELSE LET language == matching[1]
                                   content == split_file(path, language)
                                   called == [quiet EXCEPT !.tried = <<language.name>>]
                               IN  IF ~content.ok THEN OnSplitError(called)
                                   ELSE IF \E i \in 1..Len(content.chunks) :
                                             ~SliceInRange(content.lines,
                                                           content.chunks[i].start_row,
                                                           content.chunks[i].end_row)
                                   THEN [called EXCEPT !.panic = "slice"]
                                   ELSE [called EXCEPT !.ret =
                                           Some([i \in 1..Len(content.chunks) |->
                                                   MakeChunkMetadata(path, content.lines,
                                                                     content.chunks[i])])]

\* --------------------------------------------------------- Directory Walker
\* a walker is [directories, entries, chunks, opened, handed, splits, tried,
\* handles, panicked]
Max(a, b) == IF a >= b THEN a ELSE b

\* every new chunk put at the front of the buffer, one after the other
PrependEach(buffer, new) == [i \in 1..Len(new) |-> new[Len(new) + 1 - i]] \o buffer

\* self.chunks.append(&mut chunks): the new chunks go behind the buffered ones
AppendChunks(buffer, new) == buffer \o new

\* a directory entered as soon as it is met, its entries read before the rest
\* of the directory that holds it
EntryDescend(w, e) ==
    IF fs[e].access # "ok" THEN w
    ELSE IF fs[e].kind = "dir"
    THEN IF fs[e].readable
         THEN [w EXCEPT !.opened = Append(@, e),
                        !.entries = Some(Ascending({n \in Nodes \ {Root} :
                                                      fs[n].parent = e}) \o @[1])]
         ELSE w
    ELSE LET maybe_chunks == process_file(Path(e))
             w1 == [w EXCEPT !.handed = Append(@, e),
                             !.splits = @ \o [i \in 1..Len(maybe_chunks.tried) |-> e],
                             !.tried = @ \o maybe_chunks.tried,
                             \* split_file owns one File, dropped when it returns
                             !.handles.files = Max(@, Len(maybe_chunks.tried))]
         IN  IF maybe_chunks.panic # "none"
             THEN [w1 EXCEPT !.panicked = maybe_chunks.panic]
             ELSE IF maybe_chunks.ret # None
             THEN [w1 EXCEPT !.chunks = AppendChunks(@, maybe_chunks.ret[1])]
             ELSE w1

\* one directory entry met by the cursor (the arms of the match in next)
Entry(w, e) ==
    IF fs[e].access # "ok" THEN w
    ELSE IF fs[e].kind = "dir"
    THEN [w EXCEPT !.directories = Append(@, e)]
    ELSE LET maybe_chunks == process_file(Path(e))
             w1 == [w EXCEPT !.handed = Append(@, e),
                             !.splits = @ \o [i \in 1..Len(maybe_chunks.tried) |-> e],
                             !.tried = @ \o maybe_chunks.tried,
                             \* split_file owns one File, dropped when it returns
                             !.handles.files = Max(@, Len(maybe_chunks.tried))]
         IN  IF maybe_chunks.panic # "none"
             THEN [w1 EXCEPT !.panicked = maybe_chunks.panic]
             ELSE IF maybe_chunks.ret # None
             THEN [w1 EXCEPT !.chunks = AppendChunks(@, maybe_chunks.ret[1])]
             ELSE w1

RECURSIVE EntriesLoop(_)
\* while let Some(read_dir) = &mut self.entries
EntriesLoop(w) ==
    IF w.entries = None \/ w.panicked # "none" THEN w
    ELSE LET read_dir == w.entries[1]
         IN  IF read_dir = <<>>
             THEN [w EXCEPT !.entries = None]
             ELSE EntriesLoop(Entry([w EXCEPT !.entries = Some(Tail(read_dir))],
                                    Head(read_dir)))

\* a failed read_dir that drops the cursor held so far
OpenDirectoryOrReset(w, directory, V) ==
    LET w1 == [w EXCEPT !.opened = Append(@, directory)]
    IN  IF fs[directory].readable
        THEN [w1 EXCEPT !.entries = Some(ReadDir(directory, V))]
        ELSE [w1 EXCEPT !.entries = None]

\* a failed read_dir that is unwrapped
OpenDirectoryUnwrap(w, directory, V) ==
    LET w1 == [w EXCEPT !.opened = Append(@, directory)]
    IN  IF fs[directory].readable
        THEN [w1 EXCEPT !.entries = Some(ReadDir(directory, V))]
        ELSE [w1 EXCEPT !.panicked = "read_dir"]

\* the body of the directory loop: fs::read_dir on a popped directory
OpenDirectory(w, directory, V) ==
    LET w1 == [w EXCEPT !.opened = Append(@, directory)]
    IN  IF fs[directory].readable
        THEN \* read_dir has returned the new cursor when the assignment drops
             \* the one self.entries holds
             [w1 EXCEPT !.entries = Some(ReadDir(directory, V)),
                        !.handles.cursors = Max(@, IF w.entries = None THEN 1 ELSE 2)]
        ELSE w1

RECURSIVE DirectoriesLoop(_, _)
\* while let Some(directory) = self.directories.pop()
DirectoriesLoop(w, V) ==
    IF w.directories = <<>> \/ w.panicked # "none" THEN w
    ELSE LET n == Len(w.directories)
         IN  DirectoriesLoop(
                 OpenDirectory([w EXCEPT !.directories = SubSeq(@, 1, n - 1)],
                               w.directories[n], V), V)

\* a buffer whose first record is returned but left in place
KeepFirst(buffer) == buffer

\* self.chunks.remove(0): the buffer after its first record is taken
RemoveFirst(buffer) == Tail(buffer)

RECURSIVE next(_, _)
\* Iterator::next of CodeFileSplitter: the walker after the call and the item
next(w, V) ==
    IF w.chunks = <<>> /\ w.directories = <<>> /\ w.entries = None
    THEN [w |-> w, item |-> None]
    ELSE IF w.chunks # <<>>
    THEN [w |-> [w EXCEPT !.chunks = RemoveFirst(@)], item |-> Some(Head(w.chunks))]
    ELSE LET \* one pass of the outer loop: the entries loop, then the directories loop
             w2 == CHOOSE x \in {DirectoriesLoop(EntriesLoop(w), V)} : TRUE
         IN  IF w2.panicked # "none"
             THEN [w |-> w2, item |-> None]
             ELSE next(w2, V)

\* ------------------------------------------------------- the drawn file trees
Rs == [utf8 |-> TRUE, str |-> "rs"]
Txt == [utf8 |-> TRUE, str |-> "txt"]
NotUtf8 == [utf8 |-> FALSE, str |-> ""]

NoChunks == [ok |-> TRUE, chunks |-> <<>>]
SplitErr == [ok |-> FALSE, chunks |-> <<>>]

Node(parent, kind, access, readable, ext, io, content, split) ==
    [parent |-> parent, kind |-> kind, access |-> access, readable |-> readable,
     ext |-> ext, io |-> io, content |-> content, split |-> split]

Dir(parent, readable) == Node(parent, "dir", "ok", readable, None, "ok", <<>>, NoChunks)
\* an entry whose read (entryErr) or whose metadata (metaErr) fails
Broken(parent, access) == Node(parent, "file", access, FALSE, Some(Txt), "ok", <<>>, NoChunks)
PlainFile(parent, ext) == Node(parent, "file", "ok", TRUE, ext, "ok", <<>>, NoChunks)
SourceFile(parent, io, content, split) ==
    Node(parent, "file", "ok", TRUE, Some(Rs), io, content, split)

\* the file contents drawn: every text of at most MaxContentLen characters
Contents == UNION {[1..k -> Chars] : k \in 0..MaxContentLen}

\* the answers the splitter can give for a buffer: at most MaxChunks chunks in
\* buffer order, each a row range inside the buffer with a positive weight
SplitterChunks(c) ==
    {ch \in [start_row : 0..Rows(c), end_row : 0..Rows(c), size : 1..MaxWeight] :
        ch.start_row <= ch.end_row}

SplitterAnswers(c) ==
    {[ok |-> TRUE, chunks |-> q] :
        q \in {x \in UNION {[1..k -> SplitterChunks(c)] : k \in 0..MaxChunks} :
                 \A i \in 1..(Len(x) - 1) : x[i].end_row <= x[i + 1].start_row}}
    \cup {SplitErr}

\* the source file every drawn tree uses: two lines, one chunk per line
TwoLines == <<"a", NewLine, "a", NewLine>>
TwoLineChunks ==
    [ok |-> TRUE,
     chunks |-> << [start_row |-> 0, end_row |-> 1, size |-> 1],
                   [start_row |-> 1, end_row |-> 2, size |-> 1] >>]

\* what an entry of a drawn tree can be
EntryKinds == {"dir", "baddir", "entryErr", "metaErr", "noext", "txt", "badsrc", "src"}

TreeEntry(parent, k) ==
    CASE k = "dir"      -> Dir(parent, TRUE)
      [] k = "baddir"   -> Dir(parent, FALSE)
      [] k = "entryErr" -> Broken(parent, "entryErr")
      [] k = "metaErr"  -> Broken(parent, "metaErr")
      [] k = "noext"    -> PlainFile(parent, None)
      [] k = "txt"      -> PlainFile(parent, Some(Txt))
      [] k = "badsrc"   -> SourceFile(parent, "open", <<>>, NoChunks)
      [] k = "src"      -> SourceFile(parent, "ok", TwoLines, TwoLineChunks)

\* what the single file of a one-file tree can be
FileEntries ==
    {PlainFile(Root, None), PlainFile(Root, Some(Txt)), PlainFile(Root, Some(NotUtf8)),
     SourceFile(Root, "open", <<>>, NoChunks), SourceFile(Root, "read", <<>>, NoChunks)}
    \cup UNION {{SourceFile(Root, "ok", c, a) : a \in SplitterAnswers(c)} : c \in Contents}

\* the parent of every entry: an entry with a smaller id, the root its own
Parents == {p \in [Nodes -> Nodes] : p[Root] = Root /\ \A n \in Nodes \ {Root} : p[n] < n}

\* p and k are the parents and the kinds of a tree of MaxNodes entries below
\* a root that may fail to open; an entry hangs below a directory that can
\* be read
IsTree(p, k) ==
    /\ k[Root] \in {"dir", "baddir"}
    /\ \A n \in Nodes \ {Root} : k[p[n]] = "dir"

Tree(p, k) == [n \in Nodes |-> TreeEntry(p[n], k[n])]

\* a readable root holding one file
OneFileTrees ==
    {[n \in Nodes |-> IF n = Root THEN Dir(Root, TRUE)
                      ELSE IF n = 1 THEN f
                      ELSE Broken(Root, "entryErr")] : f \in FileEntries}

\* the same trees under a root that fs::read_dir fails on: a path that does
\* not exist, is not a directory or cannot be opened
UnreadableRootTrees == {[t EXCEPT ![Root] = Dir(Root, FALSE)] : t \in OneFileTrees}

\* ------------------------------------------------------------------- Init
Idle(x) == [r \in Runs |-> x]

\* no call of index yet, on a store without table
StoreIdle ==
    /\ table = None
    /\ ipc = [c \in Calls |-> "idle"]
    /\ input = [c \in Calls |-> NoInput]
    /\ icause = [c \in Calls |-> "none"]
    /\ indexed = <<>>

\* the embedding stage is not run
EmbedIdle ==
    /\ input_file = None /\ output_file = None
    /\ epc = "idle" /\ ecause = "none"

\* nothing has run yet: no splitter, no column, no output file
Fresh ==
    /\ cause = Idle("none")
    /\ output = Idle("absent")
    /\ directories = Idle(<<>>)
    /\ entries = Idle(None)
    /\ chunks = Idle(<<>>)
    /\ opened = Idle(<<>>)
    /\ handles = Idle([cursors |-> 0, files |-> 0])
    /\ handed = Idle(<<>>)
    /\ splits = Idle(<<>>)
    /\ tried = Idle(<<>>)
    /\ out = Idle(<<>>)
    /\ file_paths = Idle(<<>>)
    /\ file_names = Idle(<<>>)
    /\ start_lines = Idle(<<>>)
    /\ end_lines = Idle(<<>>)
    /\ texts = Idle(<<>>)
    /\ sizes = Idle(<<>>)
    /\ dataframe = Idle(<<>>)

InitRuns ==
    /\ languages = init_languages
    /\ fpc = [r \in Runs |-> IF r = 1 THEN "start" ELSE "idle"]
    /\ order = Idle("asc")
    /\ input_dir_path = Idle(Root)
    /\ output_path = Idle(None)
    /\ Fresh /\ StoreIdle /\ EmbedIdle

Init ==
    /\ \/ /\ \E p \in Parents : \E k \in [Nodes -> EntryKinds] :
                IsTree(p, k) /\ fs = Tree(p, k)
          /\ view = [r \in Runs |-> IF r = 1 THEN Nodes ELSE {}]
       \/ /\ fs \in OneFileTrees \cup UnreadableRootTrees
          /\ view = [r \in Runs |-> IF r = 1 THEN {Root, 1} ELSE {}]
    /\ InitRuns

\* ------------------------------------------------------------ find_and_split
\* a splitter whose three fields are one static shared by every extraction
BeginShared(r) ==
    /\ fpc[r] = "start"
    /\ directories' = Idle(<<input_dir_path[r]>>)
    /\ entries' = Idle(None)
    /\ chunks' = Idle(<<>>)
    /\ \/ /\ output' = [output EXCEPT ![r] = "created"]
          /\ fpc' = [fpc EXCEPT ![r] = "for"]
          /\ cause' = cause
       \/ /\ output' = output
          /\ fpc' = [fpc EXCEPT ![r] = "err"]
          /\ cause' = [cause EXCEPT ![r] = "create"]
    /\ UNCHANGED <<tree, opened, handed, splits, tried, out, handles, columns,
                   dataframe, stages>>

\* an output file created where the walker does not see it
CreatedElsewhere(r) == fs' = fs /\ view' = view

\* fs::File::create has succeeded: when output_file_uri names an entry of the
\* tree, that entry is now an empty regular file, whether it was there or not
Created(r) ==
    IF output_path[r] = None THEN fs' = fs /\ view' = view
    ELSE LET n == output_path[r][1]
         IN  /\ view' = [view EXCEPT ![r] = @ \cup {n}]
             /\ \E a \in IF fs[n].ext = Some(Rs) THEN SplitterAnswers(<<>>)
                          ELSE {NoChunks} :
                   fs' = [fs EXCEPT ![n] = [@ EXCEPT !.content = <<>>, !.io = "ok",
                                                     !.split = a]]

\* CodeFileSplitter::from and fs::File::create
Begin(r) ==
    /\ fpc[r] = "start"
    /\ directories' = [directories EXCEPT ![r] = <<input_dir_path[r]>>]
    /\ entries' = [entries EXCEPT ![r] = None]
    /\ chunks' = [chunks EXCEPT ![r] = <<>>]
    /\ \/ /\ output' = [output EXCEPT ![r] = "created"]
          /\ Created(r)
          /\ fpc' = [fpc EXCEPT ![r] = "for"]
          /\ cause' = cause
       \/ /\ output' = output
          /\ fs' = fs /\ view' = view
          /\ fpc' = [fpc EXCEPT ![r] = "err"]
          /\ cause' = [cause EXCEPT ![r] = "create"]
    /\ UNCHANGED <<languages, order, input_dir_path, output_path, opened, handed,
                   splits, tried, out, handles, columns, dataframe, stages>>

PushAlways(col, r, chunk, value) == [col EXCEPT ![r] = Append(@, value)]

\* the columns after one record of the for loop
Push(col, r, chunk, value) ==
    IF chunk.text # None THEN [col EXCEPT ![r] = Append(@, value)] ELSE col

\* one iteration of `for chunk in splitter`: a call of next and the loop body
Pull(r) ==
    /\ fpc[r] = "for"
    /\ LET w0 == [directories |-> directories[r], entries |-> entries[r],
                  chunks |-> chunks[r], opened |-> opened[r],
                  handles |-> handles[r],
                  handed |-> handed[r], splits |-> splits[r], tried |-> tried[r],
                  panicked |-> "none"]
       IN  \E res \in {next(w0, [nodes |-> view[r], order |-> order[r]])} : LET w == res.w IN
           /\ directories' = [directories EXCEPT ![r] = w.directories]
           /\ entries' = [entries EXCEPT ![r] = w.entries]
           /\ chunks' = [chunks EXCEPT ![r] = w.chunks]
           /\ opened' = [opened EXCEPT ![r] = w.opened]
           /\ handles' = [handles EXCEPT ![r] = w.handles]
           /\ handed' = [handed EXCEPT ![r] = w.handed]
           /\ splits' = [splits EXCEPT ![r] = w.splits]
           /\ tried' = [tried EXCEPT ![r] = w.tried]
           /\ IF w.panicked # "none"
              THEN /\ fpc' = [fpc EXCEPT ![r] = "panic"]
                   /\ cause' = [cause EXCEPT ![r] = w.panicked]
                   /\ UNCHANGED <<out, columns>>
              ELSE IF res.item = None
              THEN /\ fpc' = [fpc EXCEPT ![r] = "write"]
                   /\ UNCHANGED <<cause, out, columns>>
              ELSE LET chunk == res.item[1]
                   IN  /\ out' = [out EXCEPT ![r] = Append(@, chunk)]
                       /\ file_paths' = Push(file_paths, r, chunk, chunk.file_path)
                       /\ file_names' = Push(file_names, r, chunk, chunk.file_name)
                       /\ start_lines' = Push(start_lines, r, chunk, chunk.start_line)
                       /\ end_lines' = Push(end_lines, r, chunk, chunk.end_line)
                       /\ texts' = Push(texts, r, chunk, IF chunk.text # None
                                                         THEN chunk.text[1] ELSE <<>>)
                       /\ sizes' = Push(sizes, r, chunk, chunk.size)
                       /\ UNCHANGED <<fpc, cause>>
    /\ UNCHANGED <<tree, output, dataframe, stages>>

\* df! accepts the six columns: they have one length
SameLength(r) ==
    /\ Len(file_names[r]) = Len(file_paths[r])
    /\ Len(start_lines[r]) = Len(file_paths[r])
    /\ Len(end_lines[r]) = Len(file_paths[r])
    /\ Len(texts[r]) = Len(file_paths[r])
    /\ Len(sizes[r]) = Len(file_paths[r])

\* the dataset df! builds: the named columns, in the order they are written
df(r) ==
    << [name |-> "file_path",  values |-> file_paths[r]],
       [name |-> "file_name",  values |-> file_names[r]],
       [name |-> "start_line", values |-> start_lines[r]],
       [name |-> "end_line",   values |-> end_lines[r]],
       [name |-> "text",       values |-> texts[r]],
       [name |-> "size",       values |-> sizes[r]] >>

\* df! over the six columns and ParquetWriter::finish
Write(r) ==
    /\ fpc[r] = "write"
    /\ IF ~SameLength(r)
       THEN /\ output' = output
            /\ dataframe' = dataframe
            /\ fpc' = [fpc EXCEPT ![r] = "err"]
            /\ cause' = [cause EXCEPT ![r] = "df"]
       ELSE /\ dataframe' = [dataframe EXCEPT ![r] = df(r)]
            /\ \/ /\ output' = [output EXCEPT ![r] = "written"]
                  /\ fpc' = [fpc EXCEPT ![r] = "ok"]
                  /\ cause' = cause
               \/ /\ output' = output
                  /\ fpc' = [fpc EXCEPT ![r] = "err"]
                  /\ cause' = [cause EXCEPT ![r] = "write"]
    /\ UNCHANGED <<tree, walker, columns, stages>>

\* ------------------------------------------- the same tree without some entries
\* the directories of the walked tree that cannot be opened
UnreadableDirs ==
    {n \in view[1] \ {Root} :
        fs[n].access = "ok" /\ fs[n].kind = "dir" /\ ~fs[n].readable}

\* the files with a recognized extension that cannot be opened, read or split
FailingFiles ==
    {n \in view[1] \ {Root} :
        /\ fs[n].access = "ok" /\ fs[n].kind = "file"
        /\ fs[n].ext = Some(Rs)
        /\ (fs[n].io # "ok" \/ ~fs[n].split.ok)}

\* a second extraction, over the tree the first one walked less the entries
\* in hidden
Reference(hidden) ==
    /\ fpc[1] \in {"ok", "panic"}
    /\ fpc[2] = "idle"
    /\ hidden # {}
    /\ view' = [view EXCEPT ![2] = view[1] \ hidden]
    /\ fpc' = [fpc EXCEPT ![2] = "start"]
    /\ UNCHANGED <<languages, fs, order, input_dir_path, output_path, cause, output,
                   walker, columns, dataframe, stages>>

\* a second extraction over the same unmodified tree, in which every
\* directory lists its entries in the opposite order
Rerun ==
    /\ fpc[1] \in {"ok", "panic"}
    /\ fpc[2] = "idle"
    /\ view' = [view EXCEPT ![2] = view[1]]
    /\ order' = [order EXCEPT ![2] = "desc"]
    /\ fpc' = [fpc EXCEPT ![2] = "start"]
    /\ UNCHANGED <<languages, fs, input_dir_path, output_path, cause, output, walker,
                   columns, dataframe, stages>>

Next ==
    \/ \E r \in Runs : Begin(r)
    \/ \E r \in Runs : Pull(r)
    \/ \E r \in Runs : Write(r)
    \/ Reference(UnreadableDirs)
    \/ Reference(FailingFiles)
    \/ Rerun

Spec == Init /\ [][Next]_vars

\* ------------------------------------------- two extractions at the same time
\* the directories an extraction can be started from
StartDirs == {n \in Nodes : fs[n].access = "ok" /\ fs[n].kind = "dir"}

\* the entries of the trees two extractions walk at the same time
PairKinds == {"dir", "baddir", "noext", "txt", "src"}

\* two extractions of one tree, each from a directory of its own choice
InitPair ==
    /\ \E p \in Parents : \E k \in [Nodes -> PairKinds] :
          IsTree(p, k) /\ fs = Tree(p, k)
    /\ languages = init_languages
    /\ view = Idle(Nodes)
    /\ order = Idle("asc")
    /\ input_dir_path \in [Runs -> StartDirs]
    /\ output_path = Idle(None)
    /\ fpc = Idle("start")
    /\ Fresh /\ StoreIdle /\ EmbedIdle

\* the steps of the two extractions, interleaved in any way
NextPair ==
    \/ \E r \in Runs : Begin(r)
    \/ \E r \in Runs : Pull(r)
    \/ \E r \in Runs : Write(r)

SpecPair == InitPair /\ [][NextPair]_vars

\* ------------------------------------------ an output file inside the tree
\* the entries of the trees in which the output file lies
OutputKinds == {"dir", "noext", "txt", "src"}

\* one extraction whose output_file_uri names a file entry of the tree, which
\* exists already or not, or a path outside the tree
InitOutput ==
    /\ \E p \in Parents : \E k \in [Nodes -> OutputKinds] :
          IsTree(p, k) /\ fs = Tree(p, k)
    /\ \/ output_path = Idle(None) /\ view = [r \in Runs |-> IF r = 1 THEN Nodes ELSE {}]
       \/ \E n \in Nodes \ {Root} : \E existed \in BOOLEAN :
             /\ fs[n].kind = "file"
             /\ output_path = [r \in Runs |-> IF r = 1 THEN Some(n) ELSE None]
             /\ view = [r \in Runs |-> IF r # 1 THEN {}
                                       ELSE IF existed THEN Nodes ELSE Nodes \ {n}]
    /\ languages = init_languages
    /\ order = Idle("asc")
    /\ input_dir_path = Idle(Root)
    /\ fpc = [r \in Runs |-> IF r = 1 THEN "start" ELSE "idle"]
    /\ Fresh /\ StoreIdle /\ EmbedIdle

SpecOutput == InitOutput /\ [][NextPair]_vars

\* ------------------------------------------- registries with shared extensions
\* the registry of init_languages in which the languages named in also list
\* the extension "rs" next to their own
WithRs(also) ==
    [i \in 1..Len(init_languages) |->
        IF init_languages[i].name \in also
        THEN [init_languages[i] EXCEPT !.extensions = Append(@, "rs")]
        ELSE init_languages[i]]

Registries == {WithRs(also) : also \in SUBSET {"javascript", "python", "typescript"}}

\* one extraction of a one-file tree under any of these registries
InitDispatch ==
    /\ languages \in Registries
    /\ fs \in OneFileTrees
    /\ view = [r \in Runs |-> IF r = 1 THEN {Root, 1} ELSE {}]
    /\ order = Idle("asc")
    /\ input_dir_path = Idle(Root)
    /\ output_path = Idle(None)
    /\ fpc = [r \in Runs |-> IF r = 1 THEN "start" ELSE "idle"]
    /\ Fresh /\ StoreIdle /\ EmbedIdle

SpecDispatch == InitDispatch /\ [][NextPair]_vars

\* ---------------------------------------------------------------------- index
\* no extraction takes place
Still ==
    /\ languages = init_languages
    /\ fs = [n \in Nodes |-> Dir(Root, TRUE)]
    /\ view = Idle({})
    /\ order = Idle("asc")
    /\ input_dir_path = Idle(Root)
    /\ output_path = Idle(None)
    /\ fpc = Idle("idle")
    /\ Fresh

\* the column sets a record batch can have
Schemas == {"chunks", "chunks+embedding"}

\* the rows of the batch of call c: row j of call c is <<c, j>>
BatchRows(c, k) == [j \in 1..k |-> <<c, j>>]

\* what a call can find behind input_file_uri: no file, a file that is not a
\* readable dataset, or a record batch
Inputs(c) ==
    {[kind |-> "missing", schema |-> "", rows |-> <<>>],
     [kind |-> "invalid", schema |-> "", rows |-> <<>>]}
    \cup {[kind |-> "batch", schema |-> s, rows |-> BatchRows(c, k)] :
             s \in Schemas, k \in 0..MaxBatchRows}

\* index returns the error e
Fail(c, e) ==
    /\ ipc' = [ipc EXCEPT ![c] = "err"]
    /\ icause' = [icause EXCEPT ![c] = e]

\* index returns Ok
Succeed(c) ==
    /\ ipc' = [ipc EXCEPT ![c] = "ok"]
    /\ indexed' = Append(indexed, c)
    /\ icause' = icause

\* an input that is not a dataset found out only once the table is created
IndexProbeLate(c) ==
    /\ ipc[c] = "idle"
    /\ \E in \in Inputs(c), connected \in BOOLEAN, found \in BOOLEAN :
          /\ input' = [input EXCEPT ![c] = in]
          /\ IF in.kind = "missing" THEN Fail(c, "open") /\ table' = table
             ELSE IF ~connected THEN Fail(c, "connect") /\ table' = table
             ELSE IF in.kind = "invalid"
             THEN /\ Fail(c, "reader")
                  /\ table' = IF table = None
                               THEN Some([schema |-> "", rows |-> <<>>]) ELSE table
             ELSE /\ ipc' = [ipc EXCEPT ![c] =
                                IF table # None /\ found THEN "add" ELSE "create"]
                  /\ icause' = icause
                  /\ table' = table
    /\ UNCHANGED <<indexed, tree, fpc, cause, output, walker, columns, dataframe,
                   embedder>>

\* File::open, the record batch reader, connect and the probe open_table
IndexProbe(c) ==
    /\ ipc[c] = "idle"
    /\ \E in \in Inputs(c), connected \in BOOLEAN, found \in BOOLEAN :
          /\ input' = [input EXCEPT ![c] = in]
          /\ IF in.kind = "missing" THEN Fail(c, "open")
             ELSE IF in.kind = "invalid" THEN Fail(c, "reader")
             ELSE IF ~connected THEN Fail(c, "connect")
             ELSE \* maybe_table is Ok only when the table exists
                  /\ ipc' = [ipc EXCEPT ![c] =
                                IF table # None /\ found THEN "add" ELSE "create"]
                  /\ icause' = icause
    /\ UNCHANGED <<table, indexed, tree, fpc, cause, output, walker, columns,
                   dataframe, embedder>>

\* maybe_table is Err: create_table("codebases", reader)
IndexCreate(c) ==
    /\ ipc[c] = "create"
    /\ IF table # None
       THEN Fail(c, "exists") /\ UNCHANGED <<table, indexed>>
       ELSE \/ /\ table' = Some([schema |-> input[c].schema, rows |-> input[c].rows])
               /\ Succeed(c)
            \/ Fail(c, "create") /\ UNCHANGED <<table, indexed>>
    /\ UNCHANGED <<input, tree, fpc, cause, output, walker, columns, dataframe,
                   embedder>>

\* a table replaced by the batch of the call
IndexOverwrite(c) ==
    /\ ipc[c] = "add"
    /\ table' = Some([schema |-> input[c].schema, rows |-> input[c].rows])
    /\ Succeed(c)
    /\ UNCHANGED <<input, tree, fpc, cause, output, walker, columns, dataframe,
                   embedder>>

\* maybe_table is Ok: add(reader) to the table that was opened
IndexAdd(c) ==
    /\ ipc[c] = "add"
    /\ IF table = None \/ table[1].schema # input[c].schema
       THEN Fail(c, "add") /\ UNCHANGED <<table, indexed>>
       ELSE \/ /\ table' = Some([table[1] EXCEPT !.rows = @ \o input[c].rows])
               /\ Succeed(c)
            \/ Fail(c, "add") /\ UNCHANGED <<table, indexed>>
    /\ UNCHANGED <<input, tree, fpc, cause, output, walker, columns, dataframe,
                   embedder>>

\* call c comes after the calls before it have returned
Sequential(c) == \A d \in Calls : d < c => ipc[d] \in {"ok", "err"}

InitIndex == Still /\ StoreIdle /\ EmbedIdle

\* calls of index on one store, one after the other
NextIndex ==
    \/ \E c \in Calls : Sequential(c) /\ IndexProbe(c)
    \/ \E c \in Calls : Sequential(c) /\ IndexCreate(c)
    \/ \E c \in Calls : Sequential(c) /\ IndexAdd(c)

SpecIndex == InitIndex /\ [][NextIndex]_vars

\* the two calls of index that run at the same time
Racers == {1, 2}

\* the probe of call c fails only for a table that does not exist
Truthful(c) == ipc'[c] = "create" => table = None

\* the first half of call c, up to its probe
RaceProbe(c) == IndexProbe(c) /\ Truthful(c)

\* two calls of index on one store, their steps interleaved
NextRace ==
    \/ \E c \in Racers : RaceProbe(c)
    \/ \E c \in Racers : IndexCreate(c)
    \/ \E c \in Racers : IndexAdd(c)

SpecRace == InitIndex /\ [][NextRace]_vars

\* ------------------------------------------------ create_embeddings_from_file
\* a dataset is a sequence of columns [name, dtype, values]; a value is an
\* Option, None being null
Column(name, dtype, values) == [name |-> name, dtype |-> dtype, values |-> values]
Height(frame) == IF frame = <<>> THEN 0 ELSE Len(frame[1].values)
ColumnIndex(frame, name) == {i \in 1..Len(frame) : frame[i].name = name}

\* the values a text cell can have
Texts == {None, Some("a"), Some("b")}

\* the datasets drawn behind input_file_uri, of n rows with the text cells t:
\* the output of find_and_split, the same with texts that are not strings,
\* the same already holding an embedding column, and one without text column
InputFrames(n, t) ==
    LET file_path == Column("file_path", "str", [i \in 1..n |-> Some(i)])
        old == Column("embedding", "list", [i \in 1..n |-> Some([of |-> "old"])])
    IN  { <<file_path, Column("text", "str", t)>>,
          <<file_path, Column("text", "i64", t)>>,
          <<file_path, old, Column("text", "str", t)>>,
          <<file_path>> }

InputFiles ==
    {None} \cup {Some(f) : f \in UNION {UNION {InputFrames(n, t) : t \in [1..n -> Texts]} :
                                          n \in 0..MaxRows}}

\* TextEmbedding::embed of one text: one embedding
embed(documents) == [i \in 1..Len(documents) |-> [of |-> documents[i]]]

RECURSIVE FlatMap(_)
\* into_iter().flat_map(|y| model.embed(vec![y.unwrap()]).unwrap()).map(Series)
FlatMap(text) ==
    IF text = <<>> THEN <<>>
    ELSE [i \in 1..Len(embed(<<Head(text)[1]>>)) |-> Some(embed(<<Head(text)[1]>>)[i])]
         \o FlatMap(Tail(text))

\* a frame reduced to the new column
SelectColumn(frame, column) == <<column>>

\* LazyFrame::with_column: the column replaces the one of its name, or is
\* added behind the others
WithColumn(frame, column) ==
    IF ColumnIndex(frame, column.name) # {}
    THEN [i \in 1..Len(frame) |-> IF frame[i].name = column.name THEN column
                                   ELSE frame[i]]
    ELSE Append(frame, column)

\* create_embeddings_from_file returns the error e, or panics
EmbedEnds(pc, e) == epc' = pc /\ ecause' = e

\* File::create of the output, scan_parquet of the input, the embedding model
EmbedBegin ==
    /\ epc = "start"
    /\ \/ EmbedEnds("err", "create") /\ output_file' = output_file
       \/ /\ output_file' = Some(<<>>)
          /\ IF input_file = None THEN EmbedEnds("err", "scan")
             ELSE \/ EmbedEnds("err", "model")
                  \/ EmbedEnds("loaded", "none")
    /\ UNCHANGED <<input_file, store, tree, fpc, cause, output, walker, columns,
                   dataframe>>

\* with_column(col("text").alias("embedding").map_list(..)).collect() and
\* ParquetWriter::finish
EmbedFinish ==
    /\ epc = "loaded"
    /\ LET frame == input_file[1]
           text == ColumnIndex(frame, "text")
       IN  IF text = {}
           THEN EmbedEnds("err", "collect") /\ output_file' = output_file
           ELSE \E i \in text :
                IF frame[i].dtype # "str"
                THEN EmbedEnds("err", "collect") /\ output_file' = output_file
                ELSE IF \E j \in 1..Len(frame[i].values) : frame[i].values[j] = None
                THEN EmbedEnds("panic", "unwrap") /\ output_file' = output_file
                ELSE \/ EmbedEnds("panic", "embed") /\ output_file' = output_file
                     \/ \E embeddings \in {FlatMap(frame[i].values)} :
                          IF Len(embeddings) # Height(frame)
                          THEN EmbedEnds("err", "collect") /\ output_file' = output_file
                          ELSE \/ /\ output_file' =
                                       Some(WithColumn(frame,
                                                Column("embedding", "list", embeddings)))
                                  /\ EmbedEnds("ok", "none")
                               \/ EmbedEnds("err", "write") /\ output_file' = output_file
    /\ UNCHANGED <<input_file, store, tree, fpc, cause, output, walker, columns,
                   dataframe>>

InitEmbed ==
    /\ Still /\ StoreIdle
    /\ input_file \in InputFiles
    /\ output_file \in {None, Some(<<>>)}
    /\ epc = "start" /\ ecause = "none"

NextEmbed == EmbedBegin \/ EmbedFinish

SpecEmbed == InitEmbed /\ [][NextEmbed]_vars

\* ===================================================================== claims
\* the entries of the tree run r walks
Entries(r) == view[r] \ {Root}
RegularFile(n) == fs[n].kind = "file" /\ fs[n].access = "ok"
\* the file has no extension at all
NoExtension(n) == RegularFile(n) /\ fs[n].ext = None
\* the file has an extension that some registry entry lists
Recognized(n) ==
    /\ RegularFile(n) /\ fs[n].ext # None /\ fs[n].ext[1].utf8
    /\ \E i \in 1..Len(get_languages) :
          Contains(get_languages[i].extensions, fs[n].ext[1].str)
\* the file has an extension that no registry entry lists
Unsupported(n) == RegularFile(n) /\ fs[n].ext # None /\ ~Recognized(n)
\* the file can be opened, read and split
Splittable(n) == fs[n].io = "ok" /\ fs[n].split.ok

\* next() has returned None
StreamEnded(r) ==
    fpc[r] \in {"write", "ok"} \/ (fpc[r] = "err" /\ cause[r] \in {"df", "write"})
Exhausted(r) == directories[r] = <<>> /\ entries[r] = None /\ chunks[r] = <<>>

InSeq(x, q) == \E i \in 1..Len(q) : q[i] = x
\* the records of q that come from file n
From(q, n) == SelectSeq(q, LAMBDA c : c.file_path = Path(n))
\* the rows of the dataset of run r that come from file n
RowsFrom(r, n) == {i \in 1..Len(file_paths[r]) : file_paths[r][i] = Path(n)}

\* C1: when the stream is drained over a tree in which every directory is
\* readable and every file has an extension, every regular file with a
\* recognized extension has been handed to process_file.
C1_EveryRecognizedFileVisited ==
    (/\ StreamEnded(1)
     /\ fs[Root].readable
     /\ \A n \in Entries(1) : fs[n].access = "ok" /\ ~NoExtension(n)
     /\ \A n \in Entries(1) : fs[n].kind = "dir" => fs[n].readable)
    => \A n \in Entries(1) : Recognized(n) => InSeq(n, handed[1])

\* C2: in one traversal no directory is opened twice, no file is handed to
\* process_file twice, and no file has more records emitted than the splitter
\* returned chunks for it.
C2_NothingVisitedTwice ==
    \A r \in Runs :
        /\ NoDup(opened[r])
        /\ NoDup(handed[r])
        /\ \A n \in Entries(r) :
              RegularFile(n) => Len(From(out[r], n)) <= Len(fs[n].split.chunks)

C2_Witness ==
    /\ StreamEnded(1) /\ Len(opened[1]) >= 2 /\ Len(handed[1]) >= 2
    /\ \E n \in Entries(1) : Len(From(out[1], n)) = 2

\* C3: a file without extension met during the traversal does not end it:
\* find_and_split does not crash on it.
C3_NoExtensionDoesNotCrash ==
    \A r \in Runs : ~(fpc[r] = "panic" /\ cause[r] = "extension")

\* the second run walks the tree of the first less the unreadable directories
WithoutUnreadableDirs ==
    /\ fpc[2] # "idle" /\ UnreadableDirs # {}
    /\ view[2] = view[1] \ UnreadableDirs
\* the second run walks the tree of the first less the failing files
WithoutFailingFiles ==
    /\ fpc[2] # "idle" /\ FailingFiles # {}
    /\ view[2] = view[1] \ FailingFiles
\* the second run has left the for loop
SecondEnded == StreamEnded(2) \/ fpc[2] = "panic"

\* C4: an unreadable sub-directory is skipped without error and the stream
\* emits, and the chunker is handed, exactly what they are when the
\* unreadable directories are absent from the tree.
C4_UnreadableDirAsAbsent ==
    /\ \A r \in Runs : cause[r] # "read_dir"
    /\ (WithoutUnreadableDirs /\ SecondEnded)
          => out[2] = out[1] /\ handed[2] = handed[1]

C4_Witness ==
    /\ WithoutUnreadableDirs /\ StreamEnded(2) /\ out[2] # <<>>
    /\ \E d \in UnreadableDirs : \E n \in Entries(1) :
          /\ fs[n].kind = "dir" /\ fs[n].parent = fs[d].parent /\ n > d
          /\ \E f \in Entries(1) : fs[f].parent = n /\ InSeq(f, handed[1])

\* C5: a file with a recognized extension that cannot be opened, read or
\* split yields no record and no crash, and the stream emits exactly what it
\* emits when the failing files are absent from the tree.
C5_FailingFileAsAbsent ==
    /\ \A r \in Runs : cause[r] # "split"
    /\ \A r \in Runs : \A n \in Entries(r) :
          (Recognized(n) /\ ~Splittable(n)) => From(out[r] \o chunks[r], n) = <<>>
    /\ (WithoutFailingFiles /\ SecondEnded)
          => /\ out[2] = out[1]
             /\ handed[2] = SelectSeq(handed[1], LAMBDA n : n \notin FailingFiles)

C5_Witness ==
    /\ WithoutFailingFiles /\ StreamEnded(2) /\ out[2] # <<>>
    /\ \E n \in FailingFiles : InSeq(n, handed[1]) /\ InSeq(n, splits[1])

\* every file of the tree run r walks has an extension outside the registry
OnlyUnsupported(r) ==
    /\ \E n \in Entries(r) : Unsupported(n)
    /\ \A n \in Entries(r) : fs[n].kind = "file" => Unsupported(n)

\* C6: a file whose extension is not in the registry is never passed to
\* split_file and yields no record; over a tree with only such files the call
\* does not crash, fails only on the output file, and writes 0 rows.
C6_UnsupportedYieldsNothing ==
    \A r \in Runs :
        /\ \A n \in Entries(r) :
              Unsupported(n) =>
                  ~InSeq(n, splits[r]) /\ From(out[r] \o chunks[r], n) = <<>>
        /\ OnlyUnsupported(r) =>
              /\ fpc[r] # "panic"
              /\ fpc[r] = "err" => cause[r] \in {"create", "write"}
              /\ fpc[r] = "ok" => file_paths[r] = <<>> /\ texts[r] = <<>>

C6_Witness ==
    /\ OnlyUnsupported(1) /\ fpc[1] = "ok" /\ output[1] = "written"
    /\ \E n \in Entries(1) : Unsupported(n) /\ InSeq(n, handed[1])

\* C7: find_and_split returns an error only for the creation of the output
\* file or the write of the dataset; it leaves the for loop only with the
\* walker exhausted, or by the crash on a file without extension handed last.
C7_OnlyOutputErrors ==
    \A r \in Runs :
        /\ fpc[r] = "err" => cause[r] \in {"create", "write"}
        /\ fpc[r] = "err" /\ cause[r] = "create" => opened[r] = <<>>
        /\ StreamEnded(r) => Exhausted(r)
        /\ fpc[r] = "panic" =>
              /\ cause[r] = "extension"
              /\ handed[r] # <<>> /\ NoExtension(handed[r][Len(handed[r])])

C7_Witness ==
    /\ fpc[1] = "ok"
    /\ \E d \in UnreadableDirs : InSeq(d, opened[1])
    /\ \E n \in FailingFiles : InSeq(n, handed[1])
    /\ \E n \in Entries(1) : Unsupported(n) /\ InSeq(n, handed[1])

\* C8: no row of the dataset has a text that is empty after trimming.
C8_NoBlankText ==
    \A r \in Runs : \A i \in 1..Len(texts[r]) : ~TrimIsEmpty(texts[r][i])

\* C9: the text of every row of the dataset is the file's lines over
\* [start_line, end_line) joined with newlines.
C9_TextIsTheLineRange ==
    \A r \in Runs : \A i \in 1..Len(file_paths[r]) :
        LET n == FileNameOf(file_paths[r][i])
        IN  /\ SameLength(r)
            /\ texts[r][i] = Join(SubSeq(Lines(fs[n].content),
                                         start_lines[r][i] + 1, end_lines[r][i]),
                                  NewLine)

C9_Witness ==
    /\ fpc[1] = "ok"
    /\ \E i \in 1..Len(texts[1]) : end_lines[1][i] >= start_lines[1][i] + 2

\* C10: every file with a recognized extension and non-empty content that was
\* read and split into at least one chunk has at least one row in the dataset
\* once the stream is drained, and every record has
\* start_line <= end_line <= number of lines of its file (no slice out of range).
C10_NonEmptyFileYieldsRecord ==
    \A r \in Runs :
        /\ cause[r] # "slice"
        /\ \A i \in 1..Len(out[r]) :
              /\ out[r][i].start_line <= out[r][i].end_line
              /\ out[r][i].end_line
                     <= Len(Lines(fs[FileNameOf(out[r][i].file_path)].content))
        /\ StreamEnded(r) =>
              \A n \in Entries(r) :
                  (/\ Recognized(n) /\ Splittable(n) /\ InSeq(n, handed[r])
                   /\ fs[n].content # <<>> /\ fs[n].split.chunks # <<>>)
                  => RowsFrom(r, n) # {}

\* the rows of the dataset of run r, as a set
RowSet(r) ==
    {[file_path |-> file_paths[r][i], start_line |-> start_lines[r][i],
      end_line |-> end_lines[r][i], text |-> texts[r][i], size |-> sizes[r][i]] :
        i \in 1..Len(file_paths[r])}
\* the second run walked the tree of the first with the other enumeration order
SameTreeOtherOrder == fpc[2] # "idle" /\ view[2] = view[1] /\ order[2] # order[1]

\* C11: two extractions over the same unmodified tree yield the same set of
\* (file_path, start_line, end_line, text, size) rows, whatever the order in
\* which the directories list their entries in each run.
C11_SameRowsWhateverOrder ==
    (SameTreeOtherOrder /\ fpc[1] = "ok" /\ fpc[2] = "ok") => RowSet(2) = RowSet(1)

\* the records with a text among q
WithText(q) == SelectSeq(q, LAMBDA c : c.text # None)
ColumnNames == <<"file_path", "file_name", "start_line", "end_line", "text", "size">>

DirOf(path) == SubSeq(path, 1, Len(path) - 1)
\* directory d is a proper ancestor of directory e
ProperAncestor(d, e) == Len(d) < Len(e) /\ SubSeq(e, 1, Len(d)) = d

\* C13: a record of a file located directly in a directory is never emitted
\* after a record of a file located in a descendant of that directory.
C13_DirectFilesBeforeDescendants ==
    \A r \in Runs : \A i, j \in 1..Len(out[r]) :
        ProperAncestor(DirOf(out[r][j].file_path), DirOf(out[r][i].file_path))
            => j < i

C13_Witness ==
    /\ StreamEnded(1)
    /\ \E i, j \in 1..Len(out[1]) :
          /\ i < j
          /\ DirOf(out[1][i].file_path) = <<Root>>
          /\ ProperAncestor(<<Root>>, DirOf(out[1][j].file_path))
          /\ handed[1][1] > handed[1][2]

\* the files the records of q come from
FilesOf(q) == {q[i].file_path : i \in 1..Len(q)}

\* C18: between pulls the chunk buffer holds chunks of at most one file.
C18_BufferOfOneFile ==
    \A r \in Runs : Cardinality(FilesOf(chunks[r])) <= 1

\* the records of file n that the splitter's answer gives, in its order
Expected(n) ==
    [i \in 1..Len(fs[n].split.chunks) |->
        MakeChunkMetadata(Path(n), Lines(fs[n].content), fs[n].split.chunks[i])]
\* q is the start of s
Prefix(q, s) == Len(q) <= Len(s) /\ SubSeq(s, 1, Len(q)) = q
\* the records of each file are next to each other in q
Consecutive(q) ==
    \A i, k \in 1..Len(q) :
        (i < k /\ q[i].file_path = q[k].file_path)
            => \A j \in i..k : q[j].file_path = q[i].file_path

\* C19: the records of one file are emitted in exactly the order the
\* splitter returned its chunks, all of them by the end of the stream, and
\* the records of different files are never interleaved.
C19_SplitterOrderNoInterleaving ==
    \A r \in Runs :
        /\ Consecutive(out[r])
        /\ \A j \in 1..Len(handed[r]) :
              LET n == handed[r][j]
              IN  /\ Prefix(From(out[r], n), Expected(n))
                  /\ From(out[r] \o chunks[r], n) \in {<<>>, Expected(n)}
                  /\ (StreamEnded(r) /\ Splittable(n) /\ Recognized(n))
                        => From(out[r], n) = Expected(n)

C19_Witness ==
    /\ StreamEnded(1)
    /\ \E i, j \in 1..Len(handed[1]) :
          /\ i # j
          /\ Len(From(out[1], handed[1][i])) = 2
          /\ Len(From(out[1], handed[1][j])) = 2

\* the for loop of run r over the stream has been left
LoopLeft(r) == fpc[r] \in {"write", "ok", "panic"} \/ (fpc[r] = "err" /\ cause[r] # "create")

\* C20: over any drawn tree, also one whose entry or metadata reads fail, the
\* pulls stop only because next has returned end of sequence, and then the
\* pending-directory stack, the entry cursor and the chunk buffer are all
\* exhausted.
C20_EndsOnlyExhausted ==
    \A r \in Runs : LoopLeft(r) => (StreamEnded(r) /\ Exhausted(r))

RECURSIVE Drain(_, _, _)
\* the records a splitter yields when it is pulled until it ends, one call of
\* next after the other with nothing in between
Drain(w, V, emitted) ==
    LET res == CHOOSE x \in {next(w, V)} : TRUE
    IN  IF res.w.panicked # "none" \/ res.item = None THEN emitted
        ELSE Drain(res.w, V, Append(emitted, res.item[1]))
\* the records the stream of run r emits when it runs alone on its tree
Alone(r) ==
    Drain([directories |-> <<input_dir_path[r]>>, entries |-> None, chunks |-> <<>>,
           opened |-> <<>>, handed |-> <<>>, splits |-> <<>>, tried |-> <<>>,
           handles |-> [cursors |-> 0, files |-> 0], panicked |-> "none"],
          [nodes |-> view[r], order |-> order[r]], <<>>)

\* C16: whatever the interleaving of the pulls of two extractions, what each
\* stream has emitted is the start of the sequence it emits when run alone on
\* the same tree, and the whole of it once its for loop is left.
C16_InterleavedAsAlone ==
    \A r \in Runs :
        /\ fpc[r] # "start" => Prefix(out[r], Alone(r))
        /\ LoopLeft(r) => out[r] = Alone(r)

\* both streams are in the middle of their pulls over overlapping trees: each
\* has emitted a record and has another one buffered
C16_Witness ==
    /\ fpc[1] = "for" /\ fpc[2] = "for"
    /\ input_dir_path[1] = Root /\ input_dir_path[2] # Root
    /\ out[1] # <<>> /\ out[2] # <<>>
    /\ chunks[1] # <<>> /\ chunks[2] # <<>>

RECURSIVE Concat(_)
\* the rows of a sequence of batches, one batch after the other
Concat(batches) ==
    IF batches = <<>> THEN <<>> ELSE Head(batches).rows \o Concat(Tail(batches))
\* the batches of the calls that returned Ok, in the order of the calls
Batches == [i \in 1..Len(indexed) |-> input[indexed[i]]]

\* C14: after any number of successful calls of index made one after the
\* other on one store, the table "codebases" holds exactly the rows of all
\* their batches, batch after batch, under the columns of the first batch;
\* there is no table as long as no call has succeeded.
C14_TableHoldsEveryBatch ==
    IF indexed = <<>> THEN table = None
    ELSE /\ table # None
         /\ table[1].rows = Concat(Batches)
         /\ \A i \in 1..Len(Batches) : Batches[i].schema = table[1].schema

C14_Witness ==
    /\ Len(indexed) = MaxCalls
    /\ \A c \in Calls : Len(input[c].rows) >= 1
    /\ Len(table[1].rows) >= MaxCalls

\* C15: a call of index whose input file cannot be opened or read as a
\* record batch, or whose store connection cannot be established, returns an
\* error and leaves the store as it was: no table created, no row appended.
C15_BadInputLeavesStore ==
    [][\A c \in Calls :
          (ipc[c] = "idle" /\ ipc'[c] # "idle"
             /\ (input'[c].kind # "batch" \/ icause'[c] = "connect"))
          => (ipc'[c] = "err" /\ table' = table)]_vars

C15_Witness ==
    /\ table # None /\ table[1].rows # <<>>
    /\ \E c, d \in Calls :
          /\ ipc[c] = "err" /\ icause[c] \in {"open", "reader"} /\ c > indexed[1]
          /\ ipc[d] = "err" /\ icause[d] = "connect" /\ d > indexed[1]

C21_OneCursorOneFile ==
    \A r \in Runs : handles[r].cursors <= 1 /\ handles[r].files <= 1

\* the first entry of the registry, in its order, that lists the extension
FirstListing(extension) ==
    get_languages[CHOOSE i \in 1..Len(get_languages) :
                     /\ Contains(get_languages[i].extensions, extension)
                     /\ \A j \in 1..(i - 1) :
                           ~Contains(get_languages[j].extensions, extension)]

\* C22: split_file is called at most once for a file, and exactly once for a
\* handed file whose extension the registry lists; the language it is called
\* with is the first registry entry listing the extension, also when that
\* split fails.
C22_FirstMatchWins ==
    \A r \in Runs :
        /\ NoDup(splits[r])
        /\ Len(tried[r]) = Len(splits[r])
        /\ \A i \in 1..Len(splits[r]) :
              tried[r][i] = FirstListing(fs[splits[r][i]].ext[1].str).name
        /\ \A i \in 1..Len(handed[r]) :
              Recognized(handed[r][i]) => InSeq(handed[r][i], splits[r])

\* a file whose extension three entries list, the first of them not being
\* the one that lists it in init_languages, and whose split has failed
C22_Witness ==
    /\ StreamEnded(1) /\ tried[1] = <<"javascript">>
    /\ Cardinality({i \in 1..Len(get_languages) :
                       Contains(get_languages[i].extensions, "rs")}) = 3
    /\ ~Splittable(splits[1][1])

\* fs::read_dir fails on the directory run r starts from: it does not exist,
\* is not a directory or cannot be opened
RootUnreadable(r) == fpc[r] # "idle" /\ ~fs[input_dir_path[r]].readable

\* C23: when the root cannot be read as a directory the stream yields no
\* record and ends at the first pull, nothing below the root being opened;
\* find_and_split does not crash, reports no error but one of its output
\* file, and on success has written a dataset of the six columns with 0 rows.
C23_UnreadableRootGivesEmptyDataset ==
    \A r \in Runs : RootUnreadable(r) =>
        /\ out[r] = <<>> /\ handed[r] = <<>>
        /\ fpc[r] = "for" => opened[r] = <<>>
        /\ opened[r] \in {<<>>, <<input_dir_path[r]>>}
        /\ fpc[r] # "panic"
        /\ fpc[r] = "err" => cause[r] \in {"create", "write"}
        /\ fpc[r] = "ok" =>
              /\ output[r] = "written"
              /\ Len(dataframe[r]) = Len(ColumnNames)
              /\ \A i \in 1..Len(dataframe[r]) : dataframe[r][i].values = <<>>

C23_Witness ==
    /\ RootUnreadable(1) /\ fpc[1] = "ok" /\ opened[1] = <<Root>>
    /\ \E n \in Entries(1) : Recognized(n) /\ Splittable(n) /\ fs[n].parent = Root

C25_ConcurrentCallsBothLand ==
    (/\ \A c \in Racers : ipc[c] \in {"ok", "err"}
     /\ \A c \in Racers : input[c].kind = "batch" /\ input[c].rows # <<>>
     /\ input[1].schema = input[2].schema
     /\ \A c \in Racers : icause[c] \notin {"connect", "create", "add"})
       => /\ \A c \in Racers : ipc[c] = "ok"
          /\ table # None
          /\ \A c \in Racers : \A j \in 1..Len(input[c].rows) :
                InSeq(input[c].rows[j], table[1].rows)

====
